---- MODULE Spec2Model ----
(***************************************************************************)
(* PlantLog (app.py): a Streamlit script over a MySQL store.               *)
(*                                                                         *)
(* The model holds the two tables of init_db, the AUTO_INCREMENT counters, *)
(* the Streamlit session dictionary, the number of store connections that  *)
(* were opened and not closed, and the outcome of the last call.           *)
(* Strings that the code inspects character by character (emails,          *)
(* passwords, plant names, search terms) are sequences of one-character    *)
(* strings.  The store is MySQL 8.0 with its default strict sql_mode and   *)
(* autocommit: a statement either takes effect as a whole or raises and    *)
(* changes nothing.  Timestamps (created_at, updated_at) are not modelled. *)
(***************************************************************************)
EXTENDS Integers, Sequences, FiniteSets, TLC

VARIABLES
    users,        \* table users: set of rows [id, email, password_hash]
    nextUserId,   \* AUTO_INCREMENT counter of users.id
    logs,         \* table plant_logs: set of rows
    nextLogId,    \* AUTO_INCREMENT counter of plant_logs.id
    session,      \* st.session_state restricted to "user_id" / "user_email"
    conns,        \* store connections opened and not yet closed
    last,         \* the last call: operation, arguments of interest, outcome
    procs,        \* SpecRace: the two concurrent register_user calls
    ui            \* SpecUI: position of the Streamlit script run

vars == <<users, nextUserId, logs, nextLogId, session, conns, last, procs, ui>>
store == <<users, nextUserId, logs, nextLogId>>

----------------------------------------------------------------------------
(* Bounds of the model *)

MaxUsers == 2      \* registrations that may succeed
MaxLogs == 2       \* plant_logs rows that may ever be inserted
MaxLeaks == 1      \* connections that may be left open
MaxCalls == 2      \* SpecRace: register_user calls per process

----------------------------------------------------------------------------
(* Program constants *)

SEASONS == <<"Winter", "Spring", "Summer", "Autumn">>
STATUSES == <<"Seed", "Sprout", "Growing", "Flowering", "Harvested">>
LOCATIONS == <<"Indoor", "Outdoor", "Pot", "Ground">>

Range(f) == {f[i] : i \in DOMAIN f}

\* The ENUM column types of plant_logs, members in the order of the DDL.
SeasonEnum == <<"Winter", "Spring", "Summer", "Autumn">>
StatusEnum == <<"Seed", "Sprout", "Growing", "Flowering", "Harvested">>
LocationEnum == <<"Indoor", "Outdoor", "Pot", "Ground">>

MinPasswordLen == 8

NULL == "NULL"

----------------------------------------------------------------------------
(* Characters *)

UpperChars == {"A", "B", "Z"}
LowerChars == {"a", "b", "c", "d", "e", "f", "g", "x", "y"}
DigitChars == {"1", "9"}

\* Collation order of the characters that occur in plant names.
Alphabet == <<" ", "a", "b">>
Rank(c) == CHOOSE i \in 1..Len(Alphabet) : Alphabet[i] = c

RECURSIVE SeqLess(_, _)
SeqLess(a, b) ==
    IF b = <<>> THEN FALSE
    ELSE IF a = <<>> THEN TRUE
    ELSE IF Head(a) # Head(b) THEN Rank(Head(a)) < Rank(Head(b))
    ELSE SeqLess(Tail(a), Tail(b))

\* "@" in email
HasAt(email) == \E i \in 1..Len(email) : email[i] = "@"

----------------------------------------------------------------------------
(* Security helpers *)

\* hashlib.sha256(text).hexdigest(): a one-way digest, kept symbolic.
sha256_hash(text) == <<"sha256", text>>

is_strong_password(pw) ==
    IF Len(pw) < MinPasswordLen THEN FALSE
    ELSE IF ~(\E i \in 1..Len(pw) : pw[i] \in UpperChars) THEN FALSE
    ELSE IF ~(\E i \in 1..Len(pw) : pw[i] \in DigitChars) THEN FALSE
    ELSE IF ~(\E i \in 1..Len(pw) :
                 pw[i] \notin (UpperChars \cup LowerChars \cup DigitChars)) THEN FALSE
    ELSE TRUE

----------------------------------------------------------------------------
(* Session dictionary *)

Put(d, k, v) == [y \in DOMAIN d \cup {k} |-> IF y = k THEN v ELSE d[y]]
Pop(d, k) == [y \in DOMAIN d \ {k} |-> d[y]]
NoSession == <<>>

----------------------------------------------------------------------------
(* Store connections *)

get_conn(c) == c + 1
close(c) == c - 1

\* Faults of the store that a call can meet: none, connecting fails, or the
\* first / the second statement raises.
StoreFaults == {"connect", "execute1"}
Faults1 == {"none"} \cup StoreFaults
Faults2 == Faults1 \cup {"execute2"}

----------------------------------------------------------------------------
(* Outcome of a call *)

\* What `last` records of a call: the operation, the caller's user_id and the
\* log_id it names (0 when it has none), further arguments, the exception that
\* escaped ("" when none), the (ok, msg) pair of the auth calls, the rows of a
\* SELECT, the number of rows a DELETE removed (what cur.execute returns)
\* and, for fetch_logs, the query that was sent.
NoQuery == [user_id |-> 0, like |-> <<>>, order_col |-> "", order_dir |-> ""]
NoArgs == <<>>
Call(op, uid, log_id, args) ==
    [op |-> op, uid |-> uid, log_id |-> log_id, args |-> args, exc |-> "",
     ok |-> TRUE, msg |-> "", rows |-> <<>>, rowcount |-> 0, query |-> NoQuery]
Raise(c, exc) == [c EXCEPT !.exc = exc, !.ok = FALSE]
Result(c, ok, msg) == [c EXCEPT !.ok = ok, !.msg = msg]
Rows(c, rows) == [c EXCEPT !.rows = rows]
Sent(c, q) == [c EXCEPT !.query = q]
Affected(c, n) == [c EXCEPT !.rowcount = n]
NoCall == Call("none", 0, 0, NoArgs)

MsgInvalidEmail == "Enter a valid email."
MsgWeakPassword ==
    "Password must be 8+ chars with uppercase, number, and special character."
MsgDuplicateEmail == "Email already exists. Login instead."
MsgCreated == "Account created. You can login now."
MsgUserNotFound == "User not found."
MsgWrongPassword == "Wrong password."
MsgLoggedIn == "Logged in."

----------------------------------------------------------------------------
(* The store: constraints of the schema that init_db creates *)

\* SELECT ... FROM users WHERE email=%s
SelectUserByEmail_none(email) == {}
SelectUserByEmail(email) == {u \in users : u.email = email}

\* users.email ... UNIQUE
UniqueViolation_off(email) == FALSE
UniqueViolation(email) == \E u \in users : u.email = email

\* CONSTRAINT fk_user FOREIGN KEY (user_id) REFERENCES users(id)
ForeignKeyViolation(user_id) == ~(\E u \in users : u.id = user_id)

\* season / status / location ENUM(...) NOT NULL.  Assigning a string to a MySQL
\* ENUM column stores the member equal to it; a string that equals no member
\* and is the decimal numeral of a member's index stores that member; any other
\* string is refused (strict sql_mode).  EnumLookup gives the index stored.
EnumDigits == <<"1", "2", "3", "4", "5">>
EnumLookup(value, members) ==
    {i \in DOMAIN members :
        \/ members[i] = value
        \/ value \notin Range(members) /\ EnumDigits[i] = value}
EnumStored(value, members) == members[CHOOSE i \in EnumLookup(value, members) : TRUE]
EnumViolation(season, status, location) ==
    \/ EnumLookup(season, SeasonEnum) = {}
    \/ EnumLookup(status, StatusEnum) = {}
    \/ EnumLookup(location, LocationEnum) = {}

----------------------------------------------------------------------------
(* Schema initializer *)

init_db(fault) ==
    /\ UNCHANGED <<store, session>>
    /\ IF fault = "connect" THEN
           /\ last' = Raise(Call("init_db", 0, 0, NoArgs), "OperationalError")
           /\ conns' = conns
       ELSE IF fault \in {"execute1", "execute2"} THEN
           \* cur.execute raises: conn.close() on the next line is skipped
           /\ conns < MaxLeaks
           /\ last' = Raise(Call("init_db", 0, 0, NoArgs), "OperationalError")
           /\ conns' = get_conn(conns)
       ELSE
           /\ last' = Call("init_db", 0, 0, NoArgs)
           /\ conns' = close(get_conn(conns))

----------------------------------------------------------------------------
(* Auth *)

register_user(email, password, fault) ==
    /\ UNCHANGED <<logs, nextLogId, session>>
    /\ IF email = <<>> \/ ~HasAt(email) THEN
           /\ last' = Result(Call("register_user", 0, 0, NoArgs), FALSE, MsgInvalidEmail)
           /\ UNCHANGED <<users, nextUserId, conns>>
       ELSE IF ~is_strong_password(password) THEN
           /\ last' = Result(Call("register_user", 0, 0, NoArgs), FALSE, MsgWeakPassword)
           /\ UNCHANGED <<users, nextUserId, conns>>
       ELSE IF fault = "connect" THEN
           /\ last' = Raise(Call("register_user", 0, 0, NoArgs), "OperationalError")
           /\ UNCHANGED <<users, nextUserId, conns>>
       ELSE IF fault = "execute1" THEN
           /\ last' = Raise(Call("register_user", 0, 0, NoArgs), "OperationalError")
           /\ conns' = close(get_conn(conns))
           /\ UNCHANGED <<users, nextUserId>>
       ELSE IF SelectUserByEmail(email) # {} THEN
           /\ last' = Result(Call("register_user", 0, 0, NoArgs), FALSE, MsgDuplicateEmail)
           /\ conns' = close(get_conn(conns))
           /\ UNCHANGED <<users, nextUserId>>
       ELSE IF fault = "execute2" THEN
           /\ last' = Raise(Call("register_user", 0, 0, NoArgs), "OperationalError")
           /\ conns' = close(get_conn(conns))
           /\ UNCHANGED <<users, nextUserId>>
       ELSE IF UniqueViolation(email) THEN
           /\ last' = Raise(Call("register_user", 0, 0, NoArgs), "IntegrityError")
           /\ conns' = close(get_conn(conns))
           /\ UNCHANGED <<users, nextUserId>>
       ELSE
           /\ nextUserId <= MaxUsers
           /\ users' = users \cup {[id |-> nextUserId, email |-> email,
                                    password_hash |-> sha256_hash(password)]}
           /\ nextUserId' = nextUserId + 1
           /\ last' = Result(Call("register_user", 0, 0, NoArgs), TRUE, MsgCreated)
           /\ conns' = close(get_conn(conns))

login_user_nocompare(email, password, fault) ==
    /\ UNCHANGED store
    /\ IF fault = "connect" THEN
           /\ last' = Raise(Call("login_user", 0, 0, NoArgs), "OperationalError")
           /\ UNCHANGED <<session, conns>>
       ELSE IF fault = "execute1" THEN
           /\ last' = Raise(Call("login_user", 0, 0, NoArgs), "OperationalError")
           /\ conns' = close(get_conn(conns))
           /\ session' = session
       ELSE
           LET found == {u \in users : u.email = email} IN
           IF found = {} THEN
               /\ last' = Result(Call("login_user", 0, 0, NoArgs), FALSE, MsgUserNotFound)
               /\ conns' = close(get_conn(conns))
               /\ session' = session
           ELSE
               LET row == CHOOSE u \in found : TRUE IN
               /\ session' = Put(Put(session, "user_id", row.id), "user_email", email)
               /\ last' = Result(Call("login_user", 0, 0, NoArgs), TRUE, MsgLoggedIn)
               /\ conns' = close(get_conn(conns))
login_user(email, password, fault) ==
    /\ UNCHANGED store
    /\ IF fault = "connect" THEN
           /\ last' = Raise(Call("login_user", 0, 0, NoArgs), "OperationalError")
           /\ UNCHANGED <<session, conns>>
       ELSE IF fault = "execute1" THEN
           /\ last' = Raise(Call("login_user", 0, 0, NoArgs), "OperationalError")
           /\ conns' = close(get_conn(conns))
           /\ session' = session
       ELSE
           LET found == SelectUserByEmail(email) IN
           IF found = {} THEN
               /\ last' = Result(Call("login_user", 0, 0, NoArgs), FALSE, MsgUserNotFound)
               /\ conns' = close(get_conn(conns))
               /\ session' = session
           ELSE
               LET row == CHOOSE u \in found : TRUE IN
               IF row.password_hash # sha256_hash(password) THEN
                   /\ last' = Result(Call("login_user", 0, 0, NoArgs), FALSE, MsgWrongPassword)
                   /\ conns' = close(get_conn(conns))
                   /\ session' = session
               ELSE
                   /\ session' = Put(Put(session, "user_id", row.id),
                                     "user_email", email)
                   /\ last' = Result(Call("login_user", 0, 0, NoArgs), TRUE, MsgLoggedIn)
                   /\ conns' = close(get_conn(conns))

logout_half ==
    /\ UNCHANGED <<store, conns>>
    /\ session' = Pop(session, "user_id")
    /\ last' = Call("logout", 0, 0, NoArgs)
logout ==
    /\ UNCHANGED <<store, conns>>
    /\ session' = Pop(Pop(session, "user_id"), "user_email")
    /\ last' = Call("logout", 0, 0, NoArgs)

----------------------------------------------------------------------------
(* Log repository: the statements *)

\* WHERE id=%s AND user_id=%s
OwnedRow_anyowner(r, log_id, user_id) == r.id = log_id
OwnedRow(r, log_id, user_id) == r.id = log_id /\ r.user_id = user_id

\* SQL LIKE: "%" matches any run of characters, "_" any one character.
RECURSIVE LikeMatch(_, _)
LikeMatch(s, p) ==
    IF p = <<>> THEN s = <<>>
    ELSE IF Head(p) = "%" THEN
        LikeMatch(s, Tail(p)) \/ (s # <<>> /\ LikeMatch(Tail(s), p))
    ELSE /\ s # <<>>
         /\ (Head(p) = "_" \/ Head(p) = Head(s))
         /\ LikeMatch(Tail(s), Tail(p))

\* allowed_sort.get(sort_key, "plant_name")
SortCol_raw(sort_key) == sort_key
SortCol(sort_key) ==
    IF sort_key \in {"plant_name", "planting_date"} THEN sort_key ELSE "plant_name"

\* "ASC" if sort_dir == "ASC" else "DESC"
Direction(sort_dir) == IF sort_dir = "ASC" THEN "ASC" ELSE "DESC"

\* The SELECT that fetch_logs sends: like = <<>> stands for no LIKE clause.
Query(user_id, search, sort_key, sort_dir) ==
    [user_id |-> user_id,
     like |-> IF search # <<>> THEN <<"%">> \o search \o <<"%">> ELSE <<>>,
     order_col |-> SortCol(sort_key),
     order_dir |-> Direction(sort_dir)]

\* Columns of plant_logs that the model can order by, and the directions of SQL.
OrderColumns == {"id", "plant_name", "planting_date"}
OrderDirections == {"ASC", "DESC"}
WellFormed(q) == q.order_col \in OrderColumns /\ q.order_dir \in OrderDirections

KeyLess(col, a, b) ==
    CASE col = "plant_name" -> SeqLess(a.plant_name, b.plant_name)
      [] col = "planting_date" -> a.planting_date < b.planting_date
      [] col = "id" -> a.id < b.id

Ordered(q, s) ==
    \A i, j \in DOMAIN s :
        i < j => IF q.order_dir = "ASC"
                 THEN ~KeyLess(q.order_col, s[j], s[i])
                 ELSE ~KeyLess(q.order_col, s[i], s[j])

\* SELECT id, plant_name, planting_date, season, status, location, notes, photo_mime
Project(r) ==
    [id |-> r.id, plant_name |-> r.plant_name, planting_date |-> r.planting_date,
     season |-> r.season, status |-> r.status, location |-> r.location,
     notes |-> r.notes, photo_mime |-> r.photo_mime]

Matching(q) ==
    {r \in logs : /\ r.user_id = q.user_id
                  /\ (q.like = <<>> \/ LikeMatch(r.plant_name, q.like))}

\* Every answer the store may give: rows with equal keys come in any order.
SelectLogs(q) ==
    LET M == Matching(q)
        n == Cardinality(M)
    IN  {[i \in 1..n |-> Project(s[i])] :
            s \in {t \in [1..n -> M] :
                      /\ \A i, j \in 1..n : i # j => t[i] # t[j]
                      /\ Ordered(q, t)}}

----------------------------------------------------------------------------
(* Log repository: the operations.  f holds the six editable fields. *)

NewRow(id, user_id, f, photo_bytes, photo_mime) ==
    [id |-> id, user_id |-> user_id, plant_name |-> f.plant_name,
     planting_date |-> f.planting_date,
     season |-> EnumStored(f.season, SeasonEnum),
     status |-> EnumStored(f.status, StatusEnum),
     location |-> EnumStored(f.location, LocationEnum),
     notes |-> f.notes,
     photo |-> photo_bytes, photo_mime |-> photo_mime]

create_log(user_id, f, photo_bytes, photo_mime, fault) ==
    /\ UNCHANGED <<users, nextUserId, session>>
    /\ IF fault = "connect" THEN
           /\ last' = Raise(Call("create_log", user_id, 0, [f |-> f]), "OperationalError")
           /\ UNCHANGED <<logs, nextLogId, conns>>
       ELSE IF fault = "execute1" THEN
           /\ last' = Raise(Call("create_log", user_id, 0, [f |-> f]), "OperationalError")
           /\ conns' = close(get_conn(conns))
           /\ UNCHANGED <<logs, nextLogId>>
       ELSE IF EnumViolation(f.season, f.status, f.location) THEN
           /\ last' = Raise(Call("create_log", user_id, 0, [f |-> f]), "DataError")
           /\ conns' = close(get_conn(conns))
           /\ UNCHANGED <<logs, nextLogId>>
       ELSE IF ForeignKeyViolation(user_id) THEN
           /\ last' = Raise(Call("create_log", user_id, 0, [f |-> f]), "IntegrityError")
           /\ conns' = close(get_conn(conns))
           /\ UNCHANGED <<logs, nextLogId>>
       ELSE
           /\ nextLogId <= MaxLogs
           /\ logs' = logs \cup {NewRow(nextLogId, user_id, f, photo_bytes, photo_mime)}
           /\ nextLogId' = nextLogId + 1
           /\ last' = Call("create_log", user_id, 0, [f |-> f])
           /\ conns' = close(get_conn(conns))

fetch_logs(user_id, search, sort_key, sort_dir, fault) ==
    /\ UNCHANGED <<store, session>>
    /\ LET q == Query(user_id, search, sort_key, sort_dir)
           c == Call("fetch_logs", user_id, 0,
                     [sort_key |-> sort_key, sort_dir |-> sort_dir])
       IN
       IF fault = "connect" THEN
           /\ last' = Raise(c, "OperationalError")
           /\ conns' = conns
       ELSE IF fault = "execute1" THEN
           /\ last' = Raise(Sent(c, q), "OperationalError")
           /\ conns' = close(get_conn(conns))
       ELSE IF ~WellFormed(q) THEN
           /\ last' = Raise(Sent(c, q), "ProgrammingError")
           /\ conns' = close(get_conn(conns))
       ELSE
           /\ \E rows \in SelectLogs(q) : last' = Rows(Sent(c, q), rows)
           /\ conns' = close(get_conn(conns))

fetch_photo(user_id, log_id, fault) ==
    /\ UNCHANGED <<store, session>>
    /\ LET c == Call("fetch_photo", user_id, log_id, NoArgs) IN
       IF fault = "connect" THEN
           /\ last' = Raise(c, "OperationalError")
           /\ conns' = conns
       ELSE IF fault = "execute1" THEN
           /\ last' = Raise(c, "OperationalError")
           /\ conns' = close(get_conn(conns))
       ELSE
           \* cur.fetchone(): the row, or None (no row) when nothing matches
           LET found == {r \in logs : OwnedRow(r, log_id, user_id)} IN
           /\ last' = Rows(c, IF found = {} THEN <<>>
                              ELSE LET r == CHOOSE x \in found : TRUE
                                   IN <<[photo |-> r.photo,
                                         photo_mime |-> r.photo_mime]>>)
           /\ conns' = close(get_conn(conns))

\* UPDATE plant_logs SET ... WHERE id=%s AND user_id=%s
Updated_photo(r, f, photo_bytes, photo_mime, replace_photo) ==
    [r EXCEPT !.plant_name = f.plant_name, !.planting_date = f.planting_date,
              !.season = EnumStored(f.season, SeasonEnum),
              !.status = EnumStored(f.status, StatusEnum),
              !.location = EnumStored(f.location, LocationEnum),
              !.notes = f.notes,
              !.photo = IF replace_photo \/ photo_bytes # NULL THEN photo_bytes ELSE @,
              !.photo_mime = IF replace_photo THEN photo_mime ELSE @]
Updated(r, f, photo_bytes, photo_mime, replace_photo) ==
    [r EXCEPT !.plant_name = f.plant_name, !.planting_date = f.planting_date,
              !.season = EnumStored(f.season, SeasonEnum),
              !.status = EnumStored(f.status, StatusEnum),
              !.location = EnumStored(f.location, LocationEnum),
              !.notes = f.notes,
              !.photo = IF replace_photo THEN photo_bytes ELSE @,
              !.photo_mime = IF replace_photo THEN photo_mime ELSE @]

update_log(user_id, log_id, f, photo_bytes, photo_mime, replace_photo, fault) ==
    /\ UNCHANGED <<users, nextUserId, nextLogId, session>>
    /\ LET c == Call("update_log", user_id, log_id,
                  [f |-> f, replace_photo |-> replace_photo]) IN
       IF fault = "connect" THEN
           /\ last' = Raise(c, "OperationalError")
           /\ UNCHANGED <<logs, conns>>
       ELSE IF fault = "execute1" THEN
           /\ last' = Raise(c, "OperationalError")
           /\ conns' = close(get_conn(conns))
           /\ logs' = logs
       ELSE
           LET hit == {r \in logs : OwnedRow(r, log_id, user_id)} IN
           IF hit # {} /\ EnumViolation(f.season, f.status, f.location) THEN
               /\ last' = Raise(c, "DataError")
               /\ conns' = close(get_conn(conns))
               /\ logs' = logs
           ELSE
               /\ logs' = (logs \ hit) \cup
                          {Updated(r, f, photo_bytes, photo_mime, replace_photo) :
                              r \in hit}
               /\ last' = c
               /\ conns' = close(get_conn(conns))

delete_log_strict(user_id, log_id, fault) ==
    /\ UNCHANGED <<users, nextUserId, nextLogId, session>>
    /\ IF fault = "connect" THEN
           /\ last' = Raise(Call("delete_log", user_id, log_id, NoArgs), "OperationalError")
           /\ UNCHANGED <<logs, conns>>
       ELSE IF fault = "execute1" THEN
           /\ last' = Raise(Call("delete_log", user_id, log_id, NoArgs), "OperationalError")
           /\ conns' = close(get_conn(conns))
           /\ logs' = logs
       ELSE
           LET hit == {r \in logs : r.id = log_id /\ r.user_id = user_id} IN
           /\ logs' = logs \ hit
           \* a missing row is reported as an error
           /\ last' = IF hit = {}
                      THEN Raise(Call("delete_log", user_id, log_id, NoArgs), "LookupError")
                      ELSE Affected(Call("delete_log", user_id, log_id, NoArgs),
                                    Cardinality(hit))
           /\ conns' = close(get_conn(conns))
delete_log(user_id, log_id, fault) ==
    /\ UNCHANGED <<users, nextUserId, nextLogId, session>>
    /\ IF fault = "connect" THEN
           /\ last' = Raise(Call("delete_log", user_id, log_id, NoArgs), "OperationalError")
           /\ UNCHANGED <<logs, conns>>
       ELSE IF fault = "execute1" THEN
           /\ last' = Raise(Call("delete_log", user_id, log_id, NoArgs), "OperationalError")
           /\ conns' = close(get_conn(conns))
           /\ logs' = logs
       ELSE
           LET hit == {r \in logs : OwnedRow(r, log_id, user_id)} IN
           /\ logs' = logs \ hit
           /\ last' = Affected(Call("delete_log", user_id, log_id, NoArgs),
                               Cardinality(hit))
           /\ conns' = close(get_conn(conns))

----------------------------------------------------------------------------
(* Inputs *)

Emails == {<<>>, <<"a", "x">>, <<"a", "@", "x">>, <<"b", "@", "x">>}

PwStrong1 == <<"A", "b", "c", "d", "e", "f", "1", "!">>
PwStrong2 == <<"Z", "y", "x", "x", "y", "x", "9", "#">>
Passwords ==
    {PwStrong1, PwStrong2,
     <<"A", "b", "1", "!">>,                          \* too short
     <<"a", "b", "c", "d", "e", "f", "1", "!">>,      \* no uppercase letter
     <<"A", "b", "c", "d", "e", "f", "g", "!">>,      \* no digit
     <<"A", "b", "c", "d", "e", "f", "g", "1">>}      \* no special character

Fields(name, day, season, status, location, notes) ==
    [plant_name |-> name, planting_date |-> day, season |-> season,
     status |-> status, location |-> location, notes |-> notes]
F1 == Fields(<<"a">>, 2, "Summer", "Seed", "Indoor", "")
F2 == Fields(<<"b", "a">>, 1, "Winter", "Growing", "Pot", "n")
ValidFields == {F1, F2}
\* Fields with a value that is no member of its enumeration.
InvalidFields ==
    {[F1 EXCEPT !.season = "Monsoon"], [F2 EXCEPT !.status = "Dead"],
     [F1 EXCEPT !.location = "Balcony"], [F2 EXCEPT !.season = "2"]}
FieldSamples == ValidFields \cup InvalidFields

\* (photo_bytes, photo_mime)
PhotoSamples == {<<NULL, NULL>>, <<"png1", "image/png">>}

Searches == {<<>>, <<"b">>}
SortKeys == {"plant_name", "planting_date", "id; DROP TABLE users"}
SortDirs == {"ASC", "DESC", "asc"}
CallerIds == {1, 2}
UserIds == CallerIds \cup {3}       \* 3 is the id of no user
LogIds == 1..MaxLogs

----------------------------------------------------------------------------
(* Spec: the log repository called with any arguments, two users registered *)

InitUsers ==
    {[id |-> 1, email |-> <<"a", "@", "x">>, password_hash |-> sha256_hash(PwStrong1)],
     [id |-> 2, email |-> <<"b", "@", "x">>, password_hash |-> sha256_hash(PwStrong2)]}

\* The script between two runs: no widget clicked, no local variable set.
Idle == [pc |-> "idle", click |-> "none", uid |-> 0, ids |-> {}, selected |-> 0]

Init ==
    /\ users = InitUsers
    /\ nextUserId = 3
    /\ logs = {}
    /\ nextLogId = 1
    /\ session = NoSession
    /\ conns = 0
    /\ last = NoCall
    /\ procs = <<>>
    /\ ui = Idle

\* A store fault, or a value outside an ENUM, decides the outcome whatever the
\* photo arguments are, so those calls are taken with one sample of them.
CreateLog ==
    /\ UNCHANGED <<procs, ui>>
    /\ \/ \E u \in UserIds, f \in ValidFields, p \in PhotoSamples :
              create_log(u, f, p[1], p[2], "none")
       \/ \E u \in CallerIds, f \in InvalidFields :
              create_log(u, f, NULL, NULL, "none")
       \/ \E u \in CallerIds, fault \in StoreFaults :
              create_log(u, F1, NULL, NULL, fault)
FetchLogs ==
    /\ UNCHANGED <<procs, ui>>
    /\ \/ \E u \in CallerIds, s \in Searches, k \in SortKeys, d \in SortDirs :
              fetch_logs(u, s, k, d, "none")
       \/ \E u \in CallerIds, fault \in StoreFaults :
              fetch_logs(u, <<>>, "plant_name", "ASC", fault)
FetchPhoto ==
    /\ UNCHANGED <<procs, ui>>
    /\ \E u \in CallerIds, id \in LogIds, fault \in Faults1 : fetch_photo(u, id, fault)
UpdateLog ==
    /\ UNCHANGED <<procs, ui>>
    /\ \/ \E u \in CallerIds, id \in LogIds, f \in ValidFields, p \in PhotoSamples,
             rp \in BOOLEAN :
              update_log(u, id, f, p[1], p[2], rp, "none")
       \/ \E u \in CallerIds, id \in LogIds, f \in InvalidFields :
              update_log(u, id, f, NULL, NULL, TRUE, "none")
       \/ \E u \in CallerIds, id \in LogIds, fault \in StoreFaults :
              update_log(u, id, F2, NULL, NULL, TRUE, fault)
DeleteLog ==
    /\ UNCHANGED <<procs, ui>>
    /\ \E u \in CallerIds, id \in LogIds, fault \in Faults1 : delete_log(u, id, fault)

Next ==
    \/ CreateLog
    \/ FetchLogs
    \/ FetchPhoto
    \/ UpdateLog
    \/ DeleteLog

Spec == Init /\ [][Next]_vars

----------------------------------------------------------------------------
(* Properties of the log repository (Spec) *)

OutsideEnums(f) ==
    \/ f.season \notin Range(SEASONS)
    \/ f.status \notin Range(STATUSES)
    \/ f.location \notin Range(LOCATIONS)

RepoOps == {"create_log", "fetch_logs", "fetch_photo", "update_log", "delete_log"}
AllowedSort == {"plant_name", "planting_date"}

\* C1: owner isolation.  Whatever repository call a user makes, a row owned
\* by another user is still there, unchanged in every field and photo; it is
\* in no answer of the caller's fetch_logs, and fetch_photo called with its
\* (real) id returns no row.
C1_OwnerIsolation ==
    [][\A r \in logs :
          (last'.op \in RepoOps /\ last'.uid # r.user_id) =>
              /\ r \in logs'
              /\ (last'.op = "fetch_logs") =>
                     \A i \in DOMAIN last'.rows : last'.rows[i].id # r.id
              /\ (last'.op = "fetch_photo" /\ last'.log_id = r.id) =>
                     last'.rows = <<>>]_vars

\* A user has just updated, deleted or fetched the photo of the id of a row
\* that exists and belongs to somebody else, and the call returned.
C1_Witness ==
    /\ last.op \in {"update_log", "delete_log", "fetch_photo"}
    /\ last.exc = ""
    /\ \E r \in logs : r.id = last.log_id /\ r.user_id # last.uid

\* What a fetch_logs call does: the query it sends and the answers the store
\* may give to it (none when the store refuses the query).
Behaviour(user_id, search, sort_key, sort_dir) ==
    LET q == Query(user_id, search, sort_key, sort_dir) IN
    [query |-> q,
     refused |-> ~WellFormed(q),
     answers |-> IF WellFormed(q) THEN SelectLogs(q) ELSE {}]

\* C5: the ORDER BY of fetch_logs is built from allow-listed values only.  A
\* sort_key outside {plant_name, planting_date} behaves as "plant_name", a
\* sort_dir other than "ASC" behaves as "DESC", and the query that was sent
\* orders by an allow-listed column in a direction of SQL, with rows that
\* are an answer to that query.
C5_SortAllowList ==
    /\ (last.op = "fetch_logs" /\ last.query # NoQuery) =>
           /\ last.query.order_col \in AllowedSort
           /\ last.query.order_dir \in {"ASC", "DESC"}
           /\ last.exc \in {"", "OperationalError"}
           /\ last.exc = "" => last.rows \in SelectLogs(last.query)
    /\ \A u \in CallerIds, s \in Searches, k \in SortKeys, d \in SortDirs :
           /\ k \notin AllowedSort =>
                  Behaviour(u, s, k, d) = Behaviour(u, s, "plant_name", d)
           /\ d # "ASC" => Behaviour(u, s, k, d) = Behaviour(u, s, k, "DESC")

\* fetch_logs was called with a sort_key and a sort_dir outside the allow-lists
\* and returned two rows in an order.
C5_Witness ==
    /\ last.op = "fetch_logs"
    /\ last.exc = ""
    /\ last.args.sort_key \notin AllowedSort
    /\ last.args.sort_dir \notin {"ASC", "DESC"}
    /\ Len(last.rows) = 2
    /\ last.rows[1].plant_name # last.rows[2].plant_name

\* C6: update_log, called with season, status and location that are members
\* of the enumerations, replaces the six editable fields of a row of the caller;
\* the photo and its MIME type are kept when replace_photo is false, whatever
\* photo arguments are passed, and are both overwritten with the passed
\* values (NULL included) when it is true; the row keeps its id and user_id,
\* and every other row is as it was.
C6_UpdateFrame ==
    [][\A p \in PhotoSamples :
          LET f == last'.args.f IN
          ( /\ last'.op = "update_log"
            /\ last'.exc = ""
            /\ ~OutsideEnums(f)
            /\ update_log(last'.uid, last'.log_id, f, p[1], p[2],
                          last'.args.replace_photo, "none") ) =>
          /\ \A r \in logs :
                IF r.id = last'.log_id /\ r.user_id = last'.uid
                THEN \E n \in logs' :
                        /\ n.id = r.id
                        /\ n.user_id = r.user_id
                        /\ n.plant_name = f.plant_name
                        /\ n.planting_date = f.planting_date
                        /\ n.season = f.season
                        /\ n.status = f.status
                        /\ n.location = f.location
                        /\ n.notes = f.notes
                        /\ n.photo = IF last'.args.replace_photo THEN p[1] ELSE r.photo
                        /\ n.photo_mime =
                               IF last'.args.replace_photo THEN p[2] ELSE r.photo_mime
                ELSE r \in logs'
          /\ {<<n.id, n.user_id>> : n \in logs'} = {<<r.id, r.user_id>> : r \in logs}
      ]_vars

\* update_log with replace_photo = TRUE and no new photo has returned on a row
\* of the caller, whose photo and MIME type are now NULL.
C6_Witness ==
    /\ last.op = "update_log"
    /\ last.exc = ""
    /\ last.args.replace_photo
    /\ \E r \in logs : /\ r.id = last.log_id
                       /\ r.user_id = last.uid
                       /\ r.photo = NULL
                       /\ r.photo_mime = NULL
                       /\ r.plant_name = F2.plant_name
    /\ Cardinality(logs) = 2

\* Every fetch_logs answer for a user, whatever the search and the sorting.
Listed(user_id) ==
    UNION {SelectLogs(Query(user_id, s, k, d)) :
              s \in {<<>>}, k \in SortKeys, d \in SortDirs}

\* C7: without a store fault delete_log never raises; it removes exactly the
\* row with that id owned by the caller, if there is one, and leaves every
\* other row as it was; afterwards the id is in no fetch_logs answer of the
\* caller, and deleting it again changes nothing.
C7_DeleteIdempotent ==
    [][\A u \in CallerIds, id \in LogIds :
          (last'.op = "delete_log" /\ delete_log(u, id, "none")) =>
              /\ last'.exc = ""
              /\ logs' = {r \in logs : ~(r.id = id /\ r.user_id = u)}
              /\ \A r \in logs : (r.id # id \/ r.user_id # u) => r \in logs'
              /\ \A rows \in Listed(u)' : \A i \in DOMAIN rows : rows[i].id # id
              /\ (~\E r \in logs : r.id = id /\ r.user_id = u) => logs' = logs
      ]_vars

\* delete_log has returned, without an error and without removing anything, for
\* an id that was created earlier and is gone, while another row is still there.
C7_Witness ==
    /\ last.op = "delete_log"
    /\ last.exc = ""
    /\ last.rowcount = 0
    /\ last.log_id < nextLogId
    /\ ~\E r \in logs : r.id = last.log_id
    /\ logs # {}

EnumsClosed ==
    \A r \in logs : /\ r.season \in {"Winter", "Spring", "Summer", "Autumn"}
                    /\ r.status \in {"Seed", "Sprout", "Growing", "Flowering", "Harvested"}
                    /\ r.location \in {"Indoor", "Outdoor", "Pot", "Ground"}

\* C9: every stored row has its season, status and location in the three
\* enumerations, and a create_log or update_log call that carries a value
\* outside them is refused: it leaves the stored rows as they were, and raises
\* whenever it names a row to write.
C9_ClosedEnums ==
    /\ []EnumsClosed
    /\ [][\A p \in PhotoSamples :
             /\ ( /\ last'.op = "create_log"
                  /\ OutsideEnums(last'.args.f)
                  /\ create_log(last'.uid, last'.args.f, p[1], p[2], "none") ) =>
                    (logs' = logs /\ last'.exc # "")
             /\ ( /\ last'.op = "update_log"
                  /\ OutsideEnums(last'.args.f)
                  /\ update_log(last'.uid, last'.log_id, last'.args.f, p[1], p[2],
                                last'.args.replace_photo, "none") ) =>
                    /\ logs' = logs
                    /\ (\E r \in logs : r.id = last'.log_id /\ r.user_id = last'.uid)
                           => last'.exc # ""
         ]_vars

----------------------------------------------------------------------------
(* SpecAuth: the auth service called with any arguments, no user registered *)

InitAuth ==
    /\ users = {}
    /\ nextUserId = 1
    /\ logs = {}
    /\ nextLogId = 1
    /\ session = NoSession
    /\ conns = 0
    /\ last = NoCall
    /\ procs = <<>>
    /\ ui = Idle

InitDb ==
    /\ UNCHANGED <<procs, ui>>
    /\ \E fault \in Faults2 : init_db(fault)
Register ==
    /\ UNCHANGED <<procs, ui>>
    /\ \E e \in Emails, p \in Passwords, fault \in Faults2 : register_user(e, p, fault)
Login ==
    /\ UNCHANGED <<procs, ui>>
    /\ \E e \in Emails, p \in Passwords, fault \in Faults1 : login_user(e, p, fault)
Logout ==
    /\ UNCHANGED <<procs, ui>>
    /\ logout

NextAuth ==
    \/ InitDb
    \/ Register
    \/ Login
    \/ Logout

SpecAuth == InitAuth /\ [][NextAuth]_vars

\* C2: register_user answers "invalid email" when the email is empty or has no
\* "@", else "weak password" when the policy fails, else "duplicate email"
\* when a user has that email, and otherwise stores exactly one new user with
\* the digest of the password and succeeds; a failing call leaves the users
\* table as it was, so the first user's digest survives a second registration.
C2_Register ==
    [][\A e \in Emails, p \in Passwords :
          (last'.op = "register_user" /\ register_user(e, p, "none")) =>
          IF e = <<>> \/ "@" \notin Range(e) THEN
              last'.ok = FALSE /\ last'.msg = MsgInvalidEmail /\ users' = users
          ELSE IF ~is_strong_password(p) THEN
              last'.ok = FALSE /\ last'.msg = MsgWeakPassword /\ users' = users
          ELSE IF \E u \in users : u.email = e THEN
              last'.ok = FALSE /\ last'.msg = MsgDuplicateEmail /\ users' = users
          ELSE
              /\ last'.ok = TRUE
              /\ last'.exc = ""
              /\ \E n \in users' \ users :
                     /\ users' = users \cup {n}
                     /\ n.email = e
                     /\ n.password_hash = sha256_hash(p)
                     /\ \A u \in users : u.id # n.id
      ]_vars

\* A registration has just been refused as a duplicate, and the user who holds
\* the email is stored with the digest of a strong password.
C2_Witness ==
    /\ last.op = "register_user"
    /\ last.msg = MsgDuplicateEmail
    /\ \E u \in users : u.password_hash \in {sha256_hash(PwStrong1), sha256_hash(PwStrong2)}

\* C3: login_user answers "user not found" when no user has the email and
\* "wrong password" when the stored digest is not the digest of the password,
\* both leaving the session as it was; otherwise it succeeds and the session
\* holds the id and the email of the matching user.
C3_Login ==
    [][\A e \in Emails, p \in Passwords :
          (last'.op = "login_user" /\ login_user(e, p, "none")) =>
          LET found == {u \in users : u.email = e} IN
          IF found = {} THEN
              last'.ok = FALSE /\ last'.msg = MsgUserNotFound /\ session' = session
          ELSE IF \A u \in found : u.password_hash # sha256_hash(p) THEN
              last'.ok = FALSE /\ last'.msg = MsgWrongPassword /\ session' = session
          ELSE
              /\ last'.ok = TRUE
              /\ DOMAIN session' = {"user_id", "user_email"}
              /\ \E u \in found : /\ session'.user_id = u.id
                                  /\ session'.user_email = u.email
      ]_vars

\* A login with a wrong password has just failed while another user's session
\* is in place.
C3_Witness ==
    /\ last.op = "login_user"
    /\ last.msg = MsgWrongPassword
    /\ "user_id" \in DOMAIN session
    /\ Cardinality(users) = 2

----------------------------------------------------------------------------
(* SpecRace: two register_user calls at a time, statement by statement.      *)
(* Each call has its own connection; with autocommit each statement is       *)
(* atomic, and the statements of the two calls interleave in any order.      *)

Procs == {1, 2}

\* A process between calls: calls counts the calls it has made, wins lists the
\* emails for which register_user returned success to it, ret is what its
\* last call returned or raised.
NoRet == [ok |-> FALSE, msg |-> "", exc |-> ""]
Fresh ==
    [pc |-> "idle", email |-> <<>>, password |-> <<>>, calls |-> 0,
     wins |-> <<>>, ret |-> NoRet]

InitRace ==
    /\ users = {}
    /\ nextUserId = 1
    /\ logs = {}
    /\ nextLogId = 1
    /\ session = NoSession
    /\ conns = 0
    /\ last = NoCall
    /\ procs = [p \in Procs |-> Fresh]
    /\ ui = Idle

Done(p, ok, msg, exc) ==
    [procs EXCEPT ![p].pc = "idle", ![p].email = <<>>, ![p].password = <<>>,
                  ![p].ret = [ok |-> ok, msg |-> msg, exc |-> exc],
                  ![p].wins = IF ok THEN Append(@, procs[p].email) ELSE @]

\* Lines 94-99: the two validations, then get_conn().
RegisterEnter(p) ==
    /\ procs[p].pc = "idle"
    /\ procs[p].calls < MaxCalls
    /\ UNCHANGED <<store, session, last, ui>>
    /\ \E email \in Emails, password \in Passwords, fault \in {"none", "connect"} :
         LET called == [procs EXCEPT ![p].calls = @ + 1, ![p].email = email,
                                     ![p].password = password]
             ended(ok, msg, exc) ==
                 [called EXCEPT ![p].pc = "idle", ![p].email = <<>>,
                                ![p].password = <<>>,
                                ![p].ret = [ok |-> ok, msg |-> msg, exc |-> exc]]
         IN
         IF email = <<>> \/ ~HasAt(email) THEN
             procs' = ended(FALSE, MsgInvalidEmail, "") /\ conns' = conns
         ELSE IF ~is_strong_password(password) THEN
             procs' = ended(FALSE, MsgWeakPassword, "") /\ conns' = conns
         ELSE IF fault = "connect" THEN
             procs' = ended(FALSE, "", "OperationalError") /\ conns' = conns
         ELSE
             /\ procs' = [called EXCEPT ![p].pc = "select"]
             /\ conns' = get_conn(conns)

\* Lines 102-104: the SELECT and the early return; the finally closes.
RegisterSelect(p) ==
    /\ procs[p].pc = "select"
    /\ UNCHANGED <<store, session, last, ui>>
    /\ \E fault \in {"none", "execute1"} :
         IF fault = "execute1" THEN
             procs' = Done(p, FALSE, "", "OperationalError") /\ conns' = close(conns)
         ELSE IF SelectUserByEmail(procs[p].email) # {} THEN
             procs' = Done(p, FALSE, MsgDuplicateEmail, "") /\ conns' = close(conns)
         ELSE
             procs' = [procs EXCEPT ![p].pc = "insert"] /\ conns' = conns

\* Lines 105-111: the INSERT and the return; the finally closes.
RegisterInsert(p) ==
    /\ procs[p].pc = "insert"
    /\ UNCHANGED <<logs, nextLogId, session, last, ui>>
    /\ conns' = close(conns)
    /\ \E fault \in {"none", "execute2"} :
         IF fault = "execute2" THEN
             procs' = Done(p, FALSE, "", "OperationalError")
             /\ UNCHANGED <<users, nextUserId>>
         ELSE IF UniqueViolation(procs[p].email) THEN
             procs' = Done(p, FALSE, "", "IntegrityError")
             /\ UNCHANGED <<users, nextUserId>>
         ELSE
             /\ nextUserId <= MaxUsers
             /\ users' = users \cup {[id |-> nextUserId, email |-> procs[p].email,
                                      password_hash |-> sha256_hash(procs[p].password)]}
             /\ nextUserId' = nextUserId + 1
             /\ procs' = Done(p, TRUE, MsgCreated, "")

NextRace ==
    \/ \E p \in Procs : RegisterEnter(p)
    \/ \E p \in Procs : RegisterSelect(p)
    \/ \E p \in Procs : RegisterInsert(p)

SpecRace == InitRace /\ [][NextRace]_vars

RECURSIVE Count(_, _)
Count(s, e) ==
    IF s = <<>> THEN 0 ELSE (IF Head(s) = e THEN 1 ELSE 0) + Count(Tail(s), e)

\* C4: whatever the interleaving of the SELECTs and INSERTs of concurrent
\* register_user calls, no two users rows hold the same email, and for each
\* email at most one call has returned success, which is the call whose row
\* is stored.
C4_RaceSafe ==
    /\ \A u1, u2 \in users : u1.email = u2.email => u1 = u2
    /\ \A e \in Emails :
           /\ Count(procs[1].wins, e) + Count(procs[2].wins, e) <= 1
           /\ Count(procs[1].wins, e) + Count(procs[2].wins, e)
                  = Cardinality({u \in users : u.email = e})

\* Both calls passed the existence check for one email; one stored its row
\* and returned success, the INSERT of the other was refused by the unique
\* constraint.
C4_Witness ==
    \E p, q \in Procs :
        /\ p # q
        /\ procs[p].ret.exc = "IntegrityError"
        /\ procs[q].ret.ok
        /\ procs[q].wins # <<>>
        /\ \E u \in users : u.email = procs[q].wins[Len(procs[q].wins)]

----------------------------------------------------------------------------
(* SpecUI: the Streamlit script, run after run, for one browser session.     *)
(* A run starts on a widget interaction (click) or on st.rerun(), executes   *)
(* the script from the top and ends at st.stop(), at st.rerun(), at the end  *)
(* of the script, or with an exception that a call lets escape.              *)
(* ui.pc is the position in the run, ui.click the button that started it,    *)
(* ui.uid the script's user_id variable, ui.ids the ids of the fetched rows, *)
(* ui.selected the selected record id.                                       *)

LoginClicks == {"none", "login", "register"}
DashClicks == {"none", "logout", "add", "update", "delete"}

UIEmails == {<<>>, <<"a", "@", "x">>, <<"b", "@", "x">>}
UIPasswords == {PwStrong1, <<"A", "b", "1", "!">>}

\* str.strip() on the blank
RECURSIVE LStrip(_)
LStrip(s) == IF s # <<>> /\ Head(s) = " " THEN LStrip(Tail(s)) ELSE s
RECURSIVE RStrip(_)
RStrip(s) ==
    IF s # <<>> /\ s[Len(s)] = " " THEN RStrip(SubSeq(s, 1, Len(s) - 1)) ELSE s
Strip(s) == RStrip(LStrip(s))

\* What the add and edit forms can submit: the text input as typed, the
\* select boxes from SEASONS, STATUSES and LOCATIONS.
UIForms ==
    {f \in {F1, [F2 EXCEPT !.plant_name = <<" ", "b", "a">>],
            [F1 EXCEPT !.plant_name = <<" ">>]} :
        /\ f.season \in Range(SEASONS)
        /\ f.status \in Range(STATUSES)
        /\ f.location \in Range(LOCATIONS)}
Stripped(f) == [f EXCEPT !.plant_name = Strip(@)]

LoggedIn == "user_id" \in DOMAIN session
Escaped == last'.exc # ""
Rerun == [Idle EXCEPT !.pc = "rerun"]
NoCallMade == UNCHANGED <<store, session, conns, last>>

InitUI ==
    /\ users = {}
    /\ nextUserId = 1
    /\ logs = {}
    /\ nextLogId = 1
    /\ session = NoSession
    /\ conns = 0
    /\ last = NoCall
    /\ procs = <<>>
    /\ ui = Idle

\* Line 258: every run starts with init_db().
UIRun ==
    /\ ui.pc \in {"idle", "rerun"}
    /\ UNCHANGED procs
    /\ \E click \in (IF ui.pc = "rerun" THEN {"none"}
                     ELSE IF LoggedIn THEN DashClicks ELSE LoginClicks),
          fault \in Faults2 :
           /\ init_db(fault)
           /\ ui' = IF Escaped THEN Idle ELSE [Idle EXCEPT !.pc = "gate", !.click = click]

\* Lines 260-283: the login page, which ends with st.stop().
UILogin ==
    /\ ui.pc = "gate" /\ ~LoggedIn /\ ui.click = "login"
    /\ UNCHANGED procs
    /\ \E e \in UIEmails, p \in UIPasswords, fault \in Faults1 :
           /\ login_user(e, p, fault)
           /\ ui' = IF ~Escaped /\ last'.ok THEN Rerun ELSE Idle
UIRegister ==
    /\ ui.pc = "gate" /\ ~LoggedIn /\ ui.click = "register"
    /\ UNCHANGED procs
    /\ \E e \in UIEmails, p \in UIPasswords, fault \in Faults2 :
           /\ register_user(e, p, fault)
           /\ ui' = Idle
UIStop ==
    /\ ui.pc = "gate" /\ ~LoggedIn /\ ui.click = "none"
    /\ UNCHANGED procs
    /\ NoCallMade
    /\ ui' = Idle

\* Lines 288-304: the dashboard reads user_id from the session.
UILogout ==
    /\ ui.pc = "gate" /\ LoggedIn /\ ui.click = "logout"
    /\ UNCHANGED procs
    /\ logout
    /\ ui' = Rerun
UIFetchLogs ==
    /\ ui.pc = "gate" /\ LoggedIn /\ ui.click # "logout"
    /\ UNCHANGED procs
    /\ \E s \in Searches, k \in {"plant_name", "planting_date"}, d \in {"ASC", "DESC"},
          fault \in Faults1 :
           /\ fetch_logs(session["user_id"], s, k, d, fault)
           /\ ui' = IF Escaped THEN Idle
                    ELSE [ui EXCEPT !.pc = "tabs", !.uid = session["user_id"],
                                    !.ids = {last'.rows[i].id : i \in DOMAIN last'.rows}]

\* Lines 323-346: the add form.
UIAdd ==
    /\ ui.pc = "tabs" /\ ui.click = "add"
    /\ UNCHANGED procs
    /\ \E f \in UIForms, photo \in PhotoSamples, fault \in Faults1 :
           IF Strip(f.plant_name) = <<>>
           THEN NoCallMade /\ ui' = [ui EXCEPT !.pc = "manage", !.click = "none"]
           ELSE /\ create_log(ui.uid, Stripped(f), photo[1], photo[2], fault)
                /\ ui' = IF Escaped THEN Idle ELSE Rerun

\* Lines 348-378: the manage tab up to the photo of the selected record.
UIManageEmpty ==
    /\ (ui.pc = "tabs" /\ ui.click # "add") \/ ui.pc = "manage"
    /\ ui.ids = {}
    /\ UNCHANGED procs
    /\ NoCallMade
    /\ ui' = Idle
UIFetchPhoto ==
    /\ (ui.pc = "tabs" /\ ui.click # "add") \/ ui.pc = "manage"
    /\ UNCHANGED procs
    /\ \E selected_id \in ui.ids, fault \in Faults1 :
           /\ fetch_photo(ui.uid, selected_id, fault)
           /\ ui' = IF Escaped THEN Idle
                    ELSE [ui EXCEPT !.pc = "edit", !.selected = selected_id]

\* Lines 380-408: the edit form.
UIUpdate ==
    /\ ui.pc = "edit" /\ ui.click = "update"
    /\ UNCHANGED procs
    /\ \E f \in UIForms, replace_photo \in BOOLEAN, file \in PhotoSamples,
          fault \in Faults1 :
           LET new == IF replace_photo /\ file[1] # NULL THEN file ELSE <<NULL, NULL>> IN
           IF Strip(f.plant_name) = <<>>
           THEN NoCallMade /\ ui' = Idle
           ELSE /\ update_log(ui.uid, ui.selected, Stripped(f), new[1], new[2],
                              replace_photo, fault)
                /\ ui' = IF Escaped THEN Idle ELSE Rerun

\* Lines 416-421: the delete button.
UIDelete ==
    /\ ui.pc = "edit" /\ ui.click = "delete"
    /\ UNCHANGED procs
    /\ \E fault \in Faults1 :
           /\ delete_log(ui.uid, ui.selected, fault)
           /\ ui' = IF Escaped THEN Idle ELSE Rerun
UIEnd ==
    /\ ui.pc = "edit" /\ ui.click \notin {"update", "delete"}
    /\ UNCHANGED procs
    /\ NoCallMade
    /\ ui' = Idle

NextUI ==
    \/ UIRun
    \/ UILogin
    \/ UIRegister
    \/ UIStop
    \/ UILogout
    \/ UIFetchLogs
    \/ UIAdd
    \/ UIManageEmpty
    \/ UIFetchPhoto
    \/ UIUpdate
    \/ UIDelete
    \/ UIEnd

SpecUI == InitUI /\ [][NextUI]_vars

----------------------------------------------------------------------------
(* Properties of the script (SpecUI) *)

\* A step in which a call of `ops` has been made and has changed `last`.
Invoked(ops) == last' # last /\ last'.op \in ops

GateState ==
    /\ ("user_id" \in DOMAIN session) <=> ("user_email" \in DOMAIN session)
    /\ ~LoggedIn => last.op \notin RepoOps
    /\ last.op \in RepoOps => (LoggedIn /\ last.uid = session["user_id"])

GateSteps ==
    /\ Invoked(RepoOps) =>
           (LoggedIn /\ last'.uid = session["user_id"] /\ session' = session)
    /\ Invoked({"logout"}) => session' = NoSession
    /\ (~LoggedIn /\ LoggedIn') => (last'.op = "login_user" /\ last'.ok)

\* C10 as stated: while user_id and user_email are absent, the only calls the
\* script makes are login_user and register_user.
C10_OnlyAuthWhileLoggedOut ==
    [][~LoggedIn => (last' = last \/ last'.op \in {"login_user", "register_user"})]_vars

\* C10 with init_db counted: user_id and user_email are in the session together or not at
\* all; while they are absent the script calls init_db, login_user and
\* register_user and nothing else; every repository call passes the user_id
\* that the session holds; logout leaves the session empty, and the session
\* is filled again only by a login_user that succeeds.
C10_SessionGating ==
    /\ []GateState
    /\ [][GateSteps]_vars
    /\ [][~LoggedIn =>
             (last' = last
                 \/ last'.op \in {"init_db", "login_user", "register_user"})]_vars

\* After a login, a repository call and a logout, the script has run again
\* with an empty session and has called init_db.
C10_Witness ==
    /\ ~LoggedIn
    /\ session = NoSession
    /\ last.op = "init_db"
    /\ logs # {}
    /\ ui.pc = "gate"

\* C8: no store connection is open once an operation has finished.
C8_ScopedRelease == conns = 0

====
